---- MODULE Spec2Model ----
(***************************************************************************)
(* Model of the myconfig language server: its validator                    *)
(* (server/src/validator.ts), the calls made into it, and the handlers of  *)
(* server/src/server.ts that publish diagnostics and answer hovers.        *)
(*                                                                         *)
(* A text is a sequence of lexical tokens: the whitespace characters " "   *)
(* and "\n", the punctuation ":" and "-", and words (maximal runs of word  *)
(* characters, e.g. "name").  A JavaScript value is a record whose `kind`  *)
(* tells what it is; an object additionally carries `props`, a function    *)
(* from its own property names to values.  Messages are sequences of       *)
(* string parts (a template literal is the sequence of its pieces); the    *)
(* Japanese message texts of the source are rendered in ASCII.             *)
(***************************************************************************)
EXTENDS Integers, Sequences, FiniteSets, TLC

VARIABLES op, text, key, config, yaml, line, diagnostics,
          documents, events, notifications, hover

\* the server: the open documents, the content-change events received and
\* the diagnostics notifications sent; hover is the hover request being
\* answered
serverVars == <<documents, events, notifications>>

vars == <<op, text, key, config, yaml, line, diagnostics,
          documents, events, notifications, hover>>

(***************************************************************************)
(* Bounds of the explored inputs.                                          *)
(***************************************************************************)
MaxLines == 2
MaxNum == 1
MaxEvents == 3

(***************************************************************************)
(* JavaScript values.                                                      *)
(***************************************************************************)
JsString == [kind |-> "string"]
JsBoolean == [kind |-> "boolean"]
JsNull == [kind |-> "null"]
JsArray == [kind |-> "array"]
JsNaN == [kind |-> "nan"]
JsNumber(n) == [kind |-> "number", num |-> n]
JsObject(p) == [kind |-> "object", props |-> p]

\* typeof v
TypeOf(v) ==
  CASE v.kind = "string" -> "string"
    [] v.kind = "boolean" -> "boolean"
    [] v.kind \in {"number", "nan"} -> "number"
    [] v.kind \in {"null", "array", "object"} -> "object"

\* v === null
IsNull(v) == v.kind = "null"

\* Array.isArray(v)
IsArray(v) == v.kind = "array"

\* k in v, for an object or an array v and a schema field name k
HasProp(v, k) == v.kind = "object" /\ k \in DOMAIN v.props

\* v <= 0 in place of v < 0
LessThanZero_OrEqual(v) == v.kind = "number" /\ v.num <= 0

\* v < 0, for a v whose typeof is "number" (false for NaN)
LessThanZero(v) == v.kind = "number" /\ v.num < 0

(***************************************************************************)
(* Strings: split('\n'), trim(), and the regular expression of             *)
(* findLineForKey.                                                         *)
(***************************************************************************)
WhiteSpace == {" ", "\n"}

RECURSIVE Split(_)
Split(t) ==
  IF \A i \in 1..Len(t) : t[i] # "\n"
    THEN <<t>>
    ELSE LET i == CHOOSE j \in 1..Len(t) :
                    t[j] = "\n" /\ \A m \in 1..(j - 1) : t[m] # "\n"
         IN <<SubSeq(t, 1, i - 1)>> \o Split(SubSeq(t, i + 1, Len(t)))

RECURSIVE TrimStart(_)
TrimStart(t) ==
  IF t # <<>> /\ Head(t) \in WhiteSpace THEN TrimStart(Tail(t)) ELSE t

RECURSIVE TrimEnd(_)
TrimEnd(t) ==
  IF t # <<>> /\ t[Len(t)] \in WhiteSpace
    THEN TrimEnd(SubSeq(t, 1, Len(t) - 1))
    ELSE t

Trim(t) == TrimEnd(TrimStart(t))

\* index of the first token of l at or after i that is not whitespace
RECURSIVE SkipSpaces(_, _)
SkipSpaces(l, i) ==
  IF i <= Len(l) /\ l[i] \in WhiteSpace THEN SkipSpaces(l, i + 1) ELSE i

\* the same expression without the ^ anchor
RegexTest_Unanchored(l, k) ==
  \E i \in 1..Len(l) :
    /\ l[i] = k
    /\ LET j == SkipSpaces(l, i + 1)
       IN j <= Len(l) /\ l[j] = ":"

\* new RegExp(`^\\s*${k}\\s*:`).test(l)
RegexTest(l, k) ==
  LET i == SkipSpaces(l, 1)
  IN /\ i <= Len(l)
     /\ l[i] = k
     /\ LET j == SkipSpaces(l, i + 1)
        IN j <= Len(l) /\ l[j] = ":"

\* the loop returning the 1-based number of the line
RECURSIVE FindLineFrom_OneBased(_, _, _)
FindLineFrom_OneBased(lines, k, i) ==
  IF i >= Len(lines)
    THEN 0
    ELSE IF RegexTest(lines[i + 1], k)
           THEN i + 1
           ELSE FindLineFrom_OneBased(lines, k, i + 1)

RECURSIVE FindLineFrom(_, _, _)
FindLineFrom(lines, k, i) ==
  IF i >= Len(lines)
    THEN 0
    ELSE IF RegexTest(lines[i + 1], k)
           THEN i
           ELSE FindLineFrom(lines, k, i + 1)

findLineForKey(t, k) == FindLineFrom(Split(t), k, 0)

(***************************************************************************)
(* Diagnostics.                                                            *)
(***************************************************************************)
\* DiagnosticSeverity.Error and DiagnosticSeverity.Warning
Error == "Error"
Warning == "Warning"

createDiagnostic(severity, l, message) ==
  [severity |-> severity,
   range |-> [start |-> [line |-> l, character |-> 0],
              end |-> [line |-> l, character |-> 1000]],
   message |-> message,
   source |-> "myconfig-lsp"]

REQUIRED_FIELDS == <<"name", "version">>

\* the message texts of validateConfig and validateText
MissingMessage(field) == <<"required field \"", field, "\" is missing">>
NameMessage == <<"\"name\" must be a string">>
VersionMessage == <<"\"version\" must be a string">>
EnabledMessage == <<"\"enabled\" must be a boolean (true or false)">>
SettingsMessage == <<"\"settings\" must be an object">>
TimeoutMessage == <<"\"settings.timeout\" must be a number">>
RetriesMessage == <<"\"settings.retries\" must be a number">>
RetriesRangeMessage == <<"\"settings.retries\" must be >= 0">>
SyntaxMessage(m) == <<"YAML syntax error: ", m>>
RootMessage == <<"root element must be an object">>

(***************************************************************************)
(* validateConfig, one operator per block of the function body.            *)
(***************************************************************************)
\* the loop with the test (field in config), its negation lost
RECURSIVE RequiredFieldCheck_NoNegation(_, _)
RequiredFieldCheck_NoNegation(c, i) ==
  IF i > Len(REQUIRED_FIELDS)
    THEN <<>>
    ELSE (IF HasProp(c, REQUIRED_FIELDS[i])
            THEN <<createDiagnostic(Error, 0, MissingMessage(REQUIRED_FIELDS[i]))>>
            ELSE <<>>)
         \o RequiredFieldCheck_NoNegation(c, i + 1)

\* for (const field of REQUIRED_FIELDS) if (!(field in config)) push(...)
RECURSIVE RequiredFieldCheck(_, _)
RequiredFieldCheck(c, i) ==
  IF i > Len(REQUIRED_FIELDS)
    THEN <<>>
    ELSE (IF ~HasProp(c, REQUIRED_FIELDS[i])
            THEN <<createDiagnostic(Error, 0, MissingMessage(REQUIRED_FIELDS[i]))>>
            ELSE <<>>)
         \o RequiredFieldCheck(c, i + 1)

NameCheck(c, t) ==
  IF HasProp(c, "name") /\ TypeOf(c.props["name"]) # "string"
    THEN <<createDiagnostic(Error, findLineForKey(t, "name"), NameMessage)>>
    ELSE <<>>

VersionCheck(c, t) ==
  IF HasProp(c, "version") /\ TypeOf(c.props["version"]) # "string"
    THEN <<createDiagnostic(Error, findLineForKey(t, "version"), VersionMessage)>>
    ELSE <<>>

\* the enabled check reporting with DiagnosticSeverity.Error
EnabledCheck_AsError(c, t) ==
  IF HasProp(c, "enabled") /\ TypeOf(c.props["enabled"]) # "boolean"
    THEN <<createDiagnostic(Error, findLineForKey(t, "enabled"), EnabledMessage)>>
    ELSE <<>>

EnabledCheck(c, t) ==
  IF HasProp(c, "enabled") /\ TypeOf(c.props["enabled"]) # "boolean"
    THEN <<createDiagnostic(Warning, findLineForKey(t, "enabled"), EnabledMessage)>>
    ELSE <<>>

TimeoutCheck(s, t) ==
  IF HasProp(s, "timeout") /\ TypeOf(s.props["timeout"]) # "number"
    THEN <<createDiagnostic(Warning, findLineForKey(t, "timeout"), TimeoutMessage)>>
    ELSE <<>>

RetriesCheck(s, t) ==
  IF HasProp(s, "retries") /\ TypeOf(s.props["retries"]) # "number"
    THEN <<createDiagnostic(Warning, findLineForKey(t, "retries"), RetriesMessage)>>
    ELSE <<>>

\* the range check written as !(s.retries >= 0), without the typeof guard
RetriesRangeCheck_NoTypeGuard(s, t) ==
  IF /\ HasProp(s, "retries")
     /\ ~(s.props["retries"].kind = "number" /\ s.props["retries"].num >= 0)
    THEN <<createDiagnostic(Warning, findLineForKey(t, "retries"),
                            RetriesRangeMessage)>>
    ELSE <<>>

RetriesRangeCheck(s, t) ==
  IF /\ HasProp(s, "retries")
     /\ TypeOf(s.props["retries"]) = "number"
     /\ LessThanZero(s.props["retries"])
    THEN <<createDiagnostic(Warning, findLineForKey(t, "retries"),
                            RetriesRangeMessage)>>
    ELSE <<>>

SettingsCheck(c, t) ==
  IF HasProp(c, "settings")
    THEN LET settings == c.props["settings"]
         IN IF TypeOf(settings) # "object" \/ IsNull(settings)
              THEN <<createDiagnostic(Error, findLineForKey(t, "settings"),
                                      SettingsMessage)>>
              ELSE TimeoutCheck(settings, t)
                   \o RetriesCheck(settings, t)
                   \o RetriesRangeCheck(settings, t)
    ELSE <<>>

\* validateConfig returning as soon as a required field is missing
validateConfig_StopsEarly(c, t) ==
  IF RequiredFieldCheck(c, 1) # <<>>
    THEN RequiredFieldCheck(c, 1)
    ELSE NameCheck(c, t)
         \o VersionCheck(c, t)
         \o EnabledCheck(c, t)
         \o SettingsCheck(c, t)

validateConfig(c, t) ==
  RequiredFieldCheck(c, 1)
  \o NameCheck(c, t)
  \o VersionCheck(c, t)
  \o EnabledCheck(c, t)
  \o SettingsCheck(c, t)

(***************************************************************************)
(* parseYamlText and validateText.  The parse itself is done by the yaml   *)
(* library: its outcome y for the text is either a thrown YAMLParseError   *)
(* (with a message and, when known, the 1-based position linePos) or the   *)
(* parsed value.                                                           *)
(***************************************************************************)
NoError == [isNull |-> TRUE]
YAMLParseError(m, linePos) ==
  [isNull |-> FALSE, name |-> "YAMLParseError", message |-> m, linePos |-> linePos]
\* anything else that parseYaml throws
OtherError == [isNull |-> FALSE, name |-> "ReferenceError", message |-> "r"]

Throws(e) == [threw |-> TRUE, error |-> e]
Returns(v) == [threw |-> FALSE, value |-> v]
\* validateText returned before parsing
NotParsed == [threw |-> FALSE]

parseYamlText(y) ==
  IF y.threw
    THEN [parsed |-> JsNull, error |-> y.error]
    ELSE [parsed |-> y.value, error |-> NoError]

\* catch (e): e is not an instance of YAMLParseError, so throw e
parseYamlTextRethrows(y) == y.threw /\ y.error.name # "YAMLParseError"

\* the parser's 1-based line used as it is
ErrorLine_OneBased(e) == IF e.linePos = <<>> THEN 1 ELSE e.linePos[1].line

\* (error.linePos?.[0]?.line ?? 1) - 1
ErrorLine(e) == (IF e.linePos = <<>> THEN 1 ELSE e.linePos[1].line) - 1

\* text === '' without the trim
IsBlank_NoTrim(t) == t = <<>>

IsBlank(t) == Trim(t) = <<>>

\* the root test without Array.isArray
NotAnObject_ArraysPass(v) == TypeOf(v) # "object" \/ IsNull(v)

NotAnObject(v) == TypeOf(v) # "object" \/ IsNull(v) \/ IsArray(v)

validateText(t, y) ==
  IF IsBlank(t)
    THEN <<>>
    ELSE LET r == parseYamlText(y)
         IN IF ~r.error.isNull
              THEN <<createDiagnostic(Error, ErrorLine(r.error),
                                      SyntaxMessage(r.error.message))>>
              ELSE IF NotAnObject(r.parsed)
                     THEN <<createDiagnostic(Error, 0, RootMessage)>>
                     ELSE validateConfig(r.parsed, t)

\* validateText does not return: parseYamlText threw
validateTextThrows(t, y) == ~IsBlank(t) /\ parseYamlTextRethrows(y)

(***************************************************************************)
(* The inputs explored.                                                    *)
(***************************************************************************)
SchemaKeys == {"name", "version", "enabled", "settings", "timeout", "retries"}

RECURSIVE Join(_)
Join(ls) ==
  IF ls = <<>>
    THEN <<>>
    ELSE IF Len(ls) = 1 THEN ls[1] ELSE ls[1] \o <<"\n">> \o Join(Tail(ls))

SeqsUpTo(S, n) == UNION {[1..m -> S] : m \in 0..n}

\* texts given to validateConfig and validateText: key declarations of the
\* schema fields, at the margin or indented, and whitespace
Lines ==
  {<<" ">>, <<" ", "retries", " ", ":", " ", "v">>}
  \cup {<<w, ":">> : w \in SchemaKeys}

Texts == {Join(ls) : ls \in SeqsUpTo(Lines, MaxLines)}

\* texts given to findLineForKey: lines that declare a key and lines that
\* only look like it
FindWords == {"name", "other"}
FindKeys == FindWords \cup {"retries"}
FindLines ==
  {<<>>, <<" ">>, <<":">>}
  \cup UNION {{<<w, ":">>,
               <<w, " ", ":">>,
               <<" ", " ", w, ":", " ", "v">>,
               <<w>>,
               <<"-", " ", w, ":">>} : w \in FindWords}

FindTexts == {Join(ls) : ls \in SeqsUpTo(FindLines, MaxLines)}

\* a property that the object does not have
Absent == [kind |-> "absent"]

MkObject(f) ==
  JsObject([k \in {x \in DOMAIN f : f[x] # Absent} |-> f[k]])

Numbers == {JsNumber(n) : n \in (-MaxNum)..MaxNum} \cup {JsNaN}

NameValues == {Absent, JsString, JsNumber(0)}
VersionValues == {Absent, JsString, JsNull}
EnabledValues == {Absent, JsBoolean, JsString}
TimeoutValues == {Absent, JsNumber(MaxNum), JsString}
RetriesValues == {Absent, JsString} \cup Numbers
UnknownValues == {Absent, JsString}

SettingsObjects(u) ==
  {MkObject([timeout |-> tm, retries |-> r, unknown |-> u]) :
     tm \in TimeoutValues, r \in RetriesValues}

SettingsValues(u) == {Absent, JsString, JsNull, JsArray} \cup SettingsObjects(u)

Configs ==
  UNION {{MkObject([name |-> n, version |-> v, enabled |-> e,
                    settings |-> s, unknown |-> u]) :
            n \in NameValues, v \in VersionValues, e \in EnabledValues,
            s \in SettingsValues(u)} : u \in UnknownValues}

\* what the yaml library can answer for a text of the given number of lines
YamlOutcomes(t) ==
  {Throws(YAMLParseError("m", lp)) :
     lp \in {<<>>} \cup {<<[line |-> l, col |-> 1]>> : l \in 1..Len(Split(t))}}
  \cup {Returns(v) : v \in {JsString, JsNumber(0), JsBoolean, JsNull, JsArray}}
  \cup {Returns(c) : c \in Configs}
  \cup {Throws(OtherError)}

(***************************************************************************)
(* server.ts: the documents, the diagnostics published on a content        *)
(* change, and the hover.                                                  *)
(***************************************************************************)
Uris == {"file:///a.myconfig", "file:///b.myconfig"}

\* documents.get(uri) is undefined
NoDocument == [open |-> FALSE]

\* a document of the TextDocuments manager: its text, and what the yaml
\* library answers for that text
TextDocument(t, y) == [open |-> TRUE, text |-> t, yaml |-> y]

\* connection.sendDiagnostics({ uri, diagnostics })
sendDiagnostics(sent, uri, ds) ==
  Append(sent, [uri |-> uri, diagnostics |-> ds])

\* the handler keeping its diagnostics array across calls
onDidChangeContent_Accumulates(sent, uri, doc) ==
  IF validateTextThrows(doc.text, doc.yaml)
    THEN sent
    ELSE sendDiagnostics(sent, uri,
           (IF sent = <<>> THEN <<>> ELSE sent[Len(sent)].diagnostics)
           \o validateText(doc.text, doc.yaml))

\* documents.onDidChangeContent(change => ...): nothing is sent when
\* validateText throws
onDidChangeContent(sent, uri, doc) ==
  IF validateTextThrows(doc.text, doc.yaml)
    THEN sent
    ELSE sendDiagnostics(sent, uri, validateText(doc.text, doc.yaml))

FIELD_DOCS ==
  [name |-> [description |-> "name of the application",
             type |-> "string", required |-> TRUE],
   version |-> [description |-> "version number (e.g. \"1.0.0\")",
                type |-> "string", required |-> TRUE],
   enabled |-> [description |-> "enables or disables the application",
                type |-> "boolean", required |-> FALSE],
   settings |-> [description |-> "detailed settings object",
                 type |-> "object", required |-> FALSE],
   timeout |-> [description |-> "timeout in seconds",
                type |-> "number", required |-> FALSE],
   retries |-> [description |-> "number of retries",
                type |-> "number", required |-> FALSE]]

\* the property names every object literal inherits from Object.prototype
ObjectPrototype ==
  {"constructor", "toString", "toLocaleString", "valueOf", "hasOwnProperty",
   "isPrototypeOf", "propertyIsEnumerable", "__proto__"}

Undefined == [kind |-> "undefined"]
\* a member inherited from Object.prototype: truthy, without type,
\* required or description
Inherited == [kind |-> "function"]

\* FIELD_DOCS[k]
FieldDoc(k) ==
  IF k \in DOMAIN FIELD_DOCS
    THEN FIELD_DOCS[k]
    ELSE IF k \in ObjectPrototype THEN Inherited ELSE Undefined

\* a token that is a run of \w characters
IsWord(tok) == tok \notin {" ", "\n", ":", "-"}

\* line.match(/^\s*(\w+)\s*:/): the captured key, or <<>> for no match
KeyMatch(l) ==
  LET i == SkipSpaces(l, 1)
  IN IF /\ i <= Len(l)
        /\ IsWord(l[i])
        /\ LET j == SkipSpaces(l, i + 1)
           IN j <= Len(l) /\ l[j] = ":"
       THEN <<l[i]>>
       ELSE <<>>

NoHover == [isNull |-> TRUE]

\* the Hover built for key k and its FIELD_DOCS entry d
HoverFor(k, d) ==
  [isNull |-> FALSE,
   contents |->
     [kind |-> "markdown",
      value |-> <<k,
                  IF "type" \in DOMAIN d THEN d.type ELSE "undefined",
                  IF "required" \in DOMAIN d /\ d.required
                    THEN "required" ELSE "optional",
                  IF "description" \in DOMAIN d THEN d.description ELSE "">>]]

\* connection.onHover(params => ...)
onHover(docs, uri, ln) ==
  IF ~docs[uri].open
    THEN NoHover
    ELSE LET lines == Split(docs[uri].text)
         IN IF ln >= Len(lines) \/ lines[ln + 1] = <<>>
              THEN NoHover
              ELSE LET keyMatch == KeyMatch(lines[ln + 1])
                   IN IF keyMatch = <<>>
                        THEN NoHover
                        ELSE IF FieldDoc(keyMatch[1]) = Undefined
                               THEN NoHover
                               ELSE HoverFor(keyMatch[1], FieldDoc(keyMatch[1]))

\* the documents opened and edited while diagnostics are followed: a blank
\* text and a text of two key declarations, with what the yaml library can
\* answer for it
ServerSnapshots ==
  {TextDocument(<<" ">>, NotParsed)}
  \cup {TextDocument(<<"name", ":", "\n", " ", "retries", " ", ":", " ", "v">>, y) :
          y \in {Throws(YAMLParseError("m", <<[line |-> 2, col |-> 1]>>)),
                 Throws(OtherError),
                 Returns(JsArray),
                 Returns(MkObject([name |-> JsString, version |-> JsString])),
                 Returns(MkObject([name |-> JsNumber(0),
                                   settings |-> MkObject([retries |-> JsNumber(-1)])]))}}

\* the documents opened for hovering: lines with a schema key, with another
\* key, and without a key
HoverLines ==
  {<<>>, <<" ">>, <<"name">>, <<"-", " ", "name", ":">>,
   <<" ", "timeout", " ", ":", " ", "v">>}
  \cup {<<w, ":">> : w \in SchemaKeys \cup {"other", "constructor"}}

HoverSnapshots ==
  {TextDocument(Join(ls), IF IsBlank(Join(ls)) THEN NotParsed ELSE Returns(JsNull)) :
     ls \in SeqsUpTo(HoverLines, MaxLines)}

NoRequest == [uri |-> "", line |-> 0, result |-> NoHover]

(***************************************************************************)
(* State: the call in progress, its arguments and what it returned.        *)
(***************************************************************************)
EmptyObject == JsObject(<<>>)

Init ==
  /\ op = "idle"
  /\ text = <<>>
  /\ key = ""
  /\ config = EmptyObject
  /\ yaml = NotParsed
  /\ line = 0
  /\ diagnostics = <<>>
  /\ documents = [u \in Uris |-> NoDocument]
  /\ events = <<>>
  /\ notifications = <<>>
  /\ hover = NoRequest

CallFindLineForKey ==
  /\ op = "idle"
  /\ \E t \in FindTexts, k \in FindKeys :
       /\ op' = "findLineForKey"
       /\ text' = t
       /\ key' = k
       /\ line' = findLineForKey(t, k)
  /\ UNCHANGED <<config, yaml, diagnostics, serverVars, hover>>

CallValidateConfig ==
  /\ op = "idle"
  /\ \E c \in Configs, t \in Texts :
       /\ op' = "validateConfig"
       /\ config' = c
       /\ text' = t
       /\ diagnostics' = validateConfig(c, t)
  /\ UNCHANGED <<key, yaml, line, serverVars, hover>>

CallValidateText ==
  /\ op = "idle"
  /\ \E t \in Texts :
       \E y \in IF IsBlank(t) THEN {NotParsed} ELSE YamlOutcomes(t) :
         /\ op' = IF validateTextThrows(t, y)
                    THEN "validateText threw"
                    ELSE "validateText"
         /\ text' = t
         /\ yaml' = y
         /\ diagnostics' = IF validateTextThrows(t, y)
                             THEN <<>>
                             ELSE validateText(t, y)
  /\ UNCHANGED <<key, config, line, serverVars, hover>>

Return ==
  /\ op # "idle"
  /\ op' = "idle"
  /\ text' = <<>>
  /\ key' = ""
  /\ config' = EmptyObject
  /\ yaml' = NotParsed
  /\ line' = 0
  /\ diagnostics' = <<>>
  /\ hover' = NoRequest
  /\ UNCHANGED serverVars

Next ==
  \/ CallFindLineForKey
  \/ CallValidateConfig
  \/ CallValidateText
  \/ Return

Spec == Init /\ [][Next]_vars

(***************************************************************************)
(* The server's handlers.                                                  *)
(***************************************************************************)
\* the TextDocuments manager stores the document and fires
\* onDidChangeContent
ContentChanged(uri, doc) ==
  /\ documents' = [documents EXCEPT ![uri] = doc]
  /\ events' = Append(events, [uri |-> uri, text |-> doc.text, yaml |-> doc.yaml])
  /\ notifications' = onDidChangeContent(notifications, uri, doc)
  /\ UNCHANGED <<op, text, key, config, yaml, line, diagnostics, hover>>

DidOpen ==
  /\ op = "idle"
  /\ Len(events) < MaxEvents
  /\ \E uri \in Uris, doc \in ServerSnapshots :
       /\ ~documents[uri].open
       /\ ContentChanged(uri, doc)

DidChange ==
  /\ op = "idle"
  /\ Len(events) < MaxEvents
  /\ \E uri \in Uris, doc \in ServerSnapshots :
       /\ documents[uri].open
       /\ ContentChanged(uri, doc)

DidClose ==
  /\ op = "idle"
  /\ \E uri \in Uris :
       /\ documents[uri].open
       /\ documents' = [documents EXCEPT ![uri] = NoDocument]
  /\ UNCHANGED <<op, text, key, config, yaml, line, diagnostics,
                 events, notifications, hover>>

Hover ==
  /\ op = "idle"
  /\ \E uri \in Uris, ln \in 0..MaxLines :
       /\ op' = "hover"
       /\ hover' = [uri |-> uri, line |-> ln, result |-> onHover(documents, uri, ln)]
  /\ UNCHANGED <<text, key, config, yaml, line, diagnostics, serverVars>>

ServerNext ==
  \/ DidOpen
  \/ DidChange
  \/ DidClose
  \/ Hover
  \/ Return

ServerSpec == Init /\ [][ServerNext]_vars

\* one document is opened, then hovered over
DidOpenForHover ==
  /\ op = "idle"
  /\ events = <<>>
  /\ \E uri \in Uris, doc \in HoverSnapshots :
       ContentChanged(uri, doc)

HoverNext ==
  \/ DidOpenForHover
  \/ Hover
  \/ Return

HoverSpec == Init /\ [][HoverNext]_vars

(***************************************************************************)
(* Vocabulary of the properties, stated on the text and on the values      *)
(* themselves rather than through the operators above.                     *)
(***************************************************************************)
\* the first and last token of the 0-based line n of text t; a line is a
\* maximal run of tokens without "\n" (First = Last + 1 for an empty line)
LineSpans(t, n) ==
  {sp \in (1..(Len(t) + 1)) \X (0..Len(t)) :
     /\ sp[1] <= sp[2] + 1
     /\ sp[1] = 1 \/ t[sp[1] - 1] = "\n"
     /\ sp[2] = Len(t) \/ t[sp[2] + 1] = "\n"
     /\ \A m \in sp[1]..sp[2] : t[m] # "\n"
     /\ Cardinality({m \in 1..(sp[1] - 1) : t[m] = "\n"}) = n}

NumLines(t) == Cardinality({m \in 1..Len(t) : t[m] = "\n"}) + 1

\* line n of t is: optional whitespace, k, optional whitespace, a colon, ...
Declares(t, n, k) ==
  \E sp \in LineSpans(t, n) :
    \E i \in sp[1]..sp[2] :
      \E j \in (i + 1)..sp[2] :
        /\ t[i] = k
        /\ t[j] = ":"
        /\ \A m \in (sp[1]..(j - 1)) \ {i} : t[m] \in {" "}

DeclaringLines(t, k) == {n \in 0..(NumLines(t) - 1) : Declares(t, n, k)}

\* the line a finding about key k is expected on
LocatedLine(t, k) ==
  IF DeclaringLines(t, k) = {}
    THEN 0
    ELSE CHOOSE n \in DeclaringLines(t, k) : \A m \in DeclaringLines(t, k) : n <= m

\* the positions of the findings with message m
FindingsWith(m) == {i \in DOMAIN diagnostics : diagnostics[i].message = m}

LineOfFinding(i) == diagnostics[i].range.start.line

Has(k) == k \in DOMAIN config.props
ValueOf(k) == config.props[k]
SettingsIsMapping == Has("settings") /\ ValueOf("settings").kind = "object"
SettingsHas(k) == SettingsIsMapping /\ k \in DOMAIN ValueOf("settings").props
SettingsValueOf(k) == ValueOf("settings").props[k]
IsNumberValue(v) == v.kind \in {"number", "nan"}

(***************************************************************************)
(* Properties of validateConfig, validateText and findLineForKey.          *)
(***************************************************************************)

\* C1: after validateConfig, each required field ("name", "version") absent
\* from the mapping has exactly one finding, an error at line 0 whose message
\* names the field; a required field that is present has no missing-field
\* finding; and when both are absent the finding for "name" comes before the
\* finding for "version".
C1_MissingRequiredFields ==
  op = "validateConfig" =>
    /\ \A f \in {"name", "version"} :
         IF Has(f)
           THEN FindingsWith(MissingMessage(f)) = {}
           ELSE /\ Cardinality(FindingsWith(MissingMessage(f))) = 1
                /\ \A i \in FindingsWith(MissingMessage(f)) :
                     /\ diagnostics[i].severity = Error
                     /\ LineOfFinding(i) = 0
    /\ (~Has("name") /\ ~Has("version")) =>
         \A i \in FindingsWith(MissingMessage("name")) :
           \A j \in FindingsWith(MissingMessage("version")) : i < j

\* both required fields are missing from a mapping that has other findings too
C1_Witness ==
  /\ op = "validateConfig"
  /\ ~Has("name") /\ ~Has("version")
  /\ Len(diagnostics) > 2
  /\ text # <<>>

\* C2 (as claimed): after validateConfig, every present schema field whose
\* value does not have the declared type (name and version: string, enabled:
\* boolean, settings: mapping, settings.timeout and settings.retries: number)
\* has exactly one finding, located on the first line of the text that
\* declares the field's key.
C2_WrongTypeFindings_Claimed ==
  op = "validateConfig" =>
    LET OneAt(m, k) ==
          /\ Cardinality(FindingsWith(m)) = 1
          /\ DeclaringLines(text, k) # {} =>
               \A i \in FindingsWith(m) : LineOfFinding(i) = LocatedLine(text, k)
    IN /\ (Has("name") /\ ValueOf("name").kind # "string")
            => OneAt(NameMessage, "name")
       /\ (Has("version") /\ ValueOf("version").kind # "string")
            => OneAt(VersionMessage, "version")
       /\ (Has("enabled") /\ ValueOf("enabled").kind # "boolean")
            => OneAt(EnabledMessage, "enabled")
       /\ (Has("settings") /\ ValueOf("settings").kind # "object")
            => OneAt(SettingsMessage, "settings")
       /\ (SettingsHas("timeout") /\ ~IsNumberValue(SettingsValueOf("timeout")))
            => OneAt(TimeoutMessage, "timeout")
       /\ (SettingsHas("retries") /\ ~IsNumberValue(SettingsValueOf("retries")))
            => OneAt(RetriesMessage, "retries")

\* C3 (as claimed): in every result of validateConfig the findings for the
\* required fields (missing, or not a string) are errors and the findings for
\* the optional fields enabled, settings, settings.timeout and
\* settings.retries are all warnings.
C3_SeverityPerField_Claimed ==
  op = "validateConfig" =>
    \A i \in DOMAIN diagnostics :
      /\ diagnostics[i].message \in
           {MissingMessage("name"), MissingMessage("version"),
            NameMessage, VersionMessage}
           => diagnostics[i].severity = Error
      /\ diagnostics[i].message \in
           {EnabledMessage, SettingsMessage, TimeoutMessage,
            RetriesMessage, RetriesRangeMessage}
           => diagnostics[i].severity = Warning

\* C3 (amended): in every result of validateConfig the findings for the
\* required fields (missing, or not a string) are errors, the finding that
\* settings is not an object is an error too, and the findings for enabled,
\* settings.timeout and settings.retries are warnings; a required field that
\* is missing or not a string does get its error, and a wrong enabled,
\* timeout or retries does get its warning.
C3_SeverityPerField ==
  op = "validateConfig" =>
    /\ \A i \in DOMAIN diagnostics :
         /\ diagnostics[i].message \in
              {MissingMessage("name"), MissingMessage("version"),
               NameMessage, VersionMessage, SettingsMessage}
              => diagnostics[i].severity = Error
         /\ diagnostics[i].message \in
              {EnabledMessage, TimeoutMessage,
               RetriesMessage, RetriesRangeMessage}
              => diagnostics[i].severity = Warning
    /\ \A f \in {"name", "version"} :
         ~Has(f) => FindingsWith(MissingMessage(f)) # {}
    /\ (Has("name") /\ ValueOf("name").kind # "string")
         => FindingsWith(NameMessage) # {}
    /\ (Has("version") /\ ValueOf("version").kind # "string")
         => FindingsWith(VersionMessage) # {}
    /\ (Has("enabled") /\ ValueOf("enabled").kind # "boolean")
         => FindingsWith(EnabledMessage) # {}
    /\ (SettingsHas("timeout") /\ ~IsNumberValue(SettingsValueOf("timeout")))
         => FindingsWith(TimeoutMessage) # {}
    /\ (SettingsHas("retries") /\ ~IsNumberValue(SettingsValueOf("retries")))
         => FindingsWith(RetriesMessage) # {}
    /\ (SettingsHas("retries") /\ SettingsValueOf("retries").kind = "number"
          /\ SettingsValueOf("retries").num < 0)
         => FindingsWith(RetriesRangeMessage) # {}

\* a result that carries the settings shape error next to a warning for
\* enabled and an error for a required field
C3_Witness ==
  /\ op = "validateConfig"
  /\ FindingsWith(SettingsMessage) # {}
  /\ FindingsWith(EnabledMessage) # {}
  /\ FindingsWith(NameMessage) # {}
  /\ FindingsWith(MissingMessage("version")) # {}

\* C4: for every text that is empty or consists only of whitespace,
\* validateText returns no finding at all.
C4_BlankTextNoFindings ==
  (op = "validateText" /\ \A i \in DOMAIN text : text[i] \in {" ", "\n"})
    => diagnostics = <<>>

\* validateText was given spaces and a line break and nothing else
C4_Witness ==
  /\ op = "validateText"
  /\ \A i \in DOMAIN text : text[i] \in {" ", "\n"}
  /\ \E i \in DOMAIN text : text[i] = " "
  /\ \E i \in DOMAIN text : text[i] = "\n"
  /\ diagnostics = <<>>

\* C5: for every non-blank text whose parse throws a syntax error,
\* validateText returns exactly one finding: an error whose message is the
\* syntax-error marker followed by the parser's message and whose line is the
\* parser's 1-based line minus 1, or 0 when the parser gave no position; the
\* line is never negative and no field check is run.
C5_SyntaxErrorSingleFinding ==
  (/\ op = "validateText"
   /\ \E i \in DOMAIN text : text[i] \notin {" ", "\n"}
   /\ yaml.threw)
    => /\ Len(diagnostics) = 1
       /\ diagnostics[1].severity = Error
       /\ diagnostics[1].message = <<"YAML syntax error: ", yaml.error.message>>
       /\ LineOfFinding(1) >= 0
       /\ LineOfFinding(1) =
            IF yaml.error.linePos = <<>>
              THEN 0
              ELSE yaml.error.linePos[1].line - 1

\* the parser reported a syntax error on the second line of the text
C5_Witness ==
  /\ op = "validateText"
  /\ yaml.threw
  /\ yaml.error.linePos # <<>>
  /\ yaml.error.linePos[1].line = 2
  /\ Len(diagnostics) = 1
  /\ LineOfFinding(1) = 1

\* C6: for every non-blank text that parses to a value that is not a mapping
\* (a scalar, a sequence or null), validateText returns exactly one finding:
\* an error at line 0 with the "root element must be an object" message, and
\* no missing-field finding.
C6_RootNotObjectSingleFinding ==
  (/\ op = "validateText"
   /\ \E i \in DOMAIN text : text[i] \notin {" ", "\n"}
   /\ ~yaml.threw
   /\ yaml.value.kind # "object")
    => /\ Len(diagnostics) = 1
       /\ diagnostics[1].severity = Error
       /\ LineOfFinding(1) = 0
       /\ diagnostics[1].message = RootMessage

\* the text parsed to a sequence
C6_Witness ==
  /\ op = "validateText"
  /\ ~yaml.threw
  /\ "value" \in DOMAIN yaml
  /\ yaml.value.kind = "array"
  /\ Len(diagnostics) = 1

\* C7: for every mapping in which name and version are strings, enabled is
\* absent or a boolean, and settings is absent or a mapping whose timeout and
\* retries are each absent or a number, with retries >= 0, validateConfig
\* returns the empty sequence, whatever unknown top-level or nested keys the
\* mapping also carries.
C7_ValidConfigNoFindings ==
  (/\ op = "validateConfig"
   /\ Has("name") /\ ValueOf("name").kind = "string"
   /\ Has("version") /\ ValueOf("version").kind = "string"
   /\ Has("enabled") => ValueOf("enabled").kind = "boolean"
   /\ Has("settings") =>
        /\ ValueOf("settings").kind = "object"
        /\ SettingsHas("timeout") => SettingsValueOf("timeout").kind = "number"
        /\ SettingsHas("retries") =>
             /\ SettingsValueOf("retries").kind = "number"
             /\ SettingsValueOf("retries").num >= 0)
    => diagnostics = <<>>

\* a valid mapping with every schema field set and with unknown keys at both
\* levels, validated against a text that declares its keys
C7_Witness ==
  /\ op = "validateConfig"
  /\ Has("name") /\ Has("version") /\ Has("enabled") /\ Has("unknown")
  /\ SettingsHas("timeout") /\ SettingsHas("retries") /\ SettingsHas("unknown")
  /\ SettingsValueOf("retries") = JsNumber(0)
  /\ DeclaringLines(text, "retries") # {}
  /\ diagnostics = <<>>

\* C8: when settings is a mapping containing retries: a retries that is a
\* number below 0 gets the "must be >= 0" warning and not the "must be a
\* number" warning; a retries that is not a number gets the "must be a
\* number" warning and not the ">= 0" warning; a retries that is a number
\* >= 0 gets neither.  The two warnings never appear in one result.
C8_RetriesWarnings ==
  op \in {"validateConfig", "validateText"} =>
    /\ ~(FindingsWith(RetriesMessage) # {} /\ FindingsWith(RetriesRangeMessage) # {})
    /\ (op = "validateConfig" /\ SettingsHas("retries")) =>
         LET r == SettingsValueOf("retries")
         IN /\ (r.kind = "number" /\ r.num < 0) =>
                 /\ Cardinality(FindingsWith(RetriesRangeMessage)) = 1
                 /\ \A i \in FindingsWith(RetriesRangeMessage) :
                      diagnostics[i].severity = Warning
                 /\ FindingsWith(RetriesMessage) = {}
            /\ ~IsNumberValue(r) =>
                 /\ Cardinality(FindingsWith(RetriesMessage)) = 1
                 /\ \A i \in FindingsWith(RetriesMessage) :
                      diagnostics[i].severity = Warning
                 /\ FindingsWith(RetriesRangeMessage) = {}
            /\ (r.kind = "number" /\ r.num >= 0) =>
                 /\ FindingsWith(RetriesMessage) = {}
                 /\ FindingsWith(RetriesRangeMessage) = {}

\* a negative retries, declared on a line of the text after the first
C8_Witness ==
  /\ op = "validateConfig"
  /\ SettingsHas("retries")
  /\ SettingsValueOf("retries").kind = "number"
  /\ SettingsValueOf("retries").num < 0
  /\ \E i \in FindingsWith(RetriesRangeMessage) : LineOfFinding(i) > 0

\* C9: findLineForKey(text, key) returns the 0-based index of the first line
\* of the text that is optional whitespace, the key, optional whitespace and
\* a colon, at any indentation, and 0 when no line is; so the result is never
\* negative and no line before the returned one declares the key.
C9_FindLineForKeyFirstMatch ==
  op = "findLineForKey" =>
    /\ line >= 0
    /\ line = LocatedLine(text, key)
    /\ DeclaringLines(text, key) = {} => line = 0
    /\ DeclaringLines(text, key) # {} =>
         /\ Declares(text, line, key)
         /\ \A n \in 0..(line - 1) : ~Declares(text, n, key)

\* the key is declared, indented, on the second line, after a line that
\* mentions the key without declaring it
C9_Witness ==
  /\ op = "findLineForKey"
  /\ line = 1
  /\ Declares(text, 1, key)
  /\ text[1] # key
  /\ \E i \in DOMAIN text : text[i] = key /\ \A j \in 1..i : text[j] # "\n"
  /\ \E sp \in LineSpans(text, 1) : text[sp[1]] = " "

\* C10 (as claimed): if settings is present and is not a mapping (a scalar,
\* null or a sequence), validateConfig emits exactly one error finding
\* "settings must be an object" on the located line of the settings key and
\* no finding about settings.timeout or settings.retries.
C10_SettingsNotMapping_Claimed ==
  (/\ op = "validateConfig"
   /\ Has("settings")
   /\ ValueOf("settings").kind # "object")
    => /\ Cardinality(FindingsWith(SettingsMessage)) = 1
       /\ \A i \in FindingsWith(SettingsMessage) :
            /\ diagnostics[i].severity = Error
            /\ LineOfFinding(i) = LocatedLine(text, "settings")
       /\ FindingsWith(TimeoutMessage) = {}
       /\ FindingsWith(RetriesMessage) = {}
       /\ FindingsWith(RetriesRangeMessage) = {}

(***************************************************************************)
(* Properties of the server's handlers.                                    *)
(***************************************************************************)
\* the validation of the event's text does not return: the text is not
\* blank and the parser threw something that is not a YAMLParseError
Propagates(e) ==
  /\ \E i \in DOMAIN e.text : e.text[i] \notin {" ", "\n"}
  /\ e.yaml.threw
  /\ e.yaml.error.name # "YAMLParseError"

\* the positions of the events or notifications of s that are about uri
About(s, uri) == {i \in DOMAIN s : s[i].uri = uri}

Latest(s, uri) == s[CHOOSE i \in About(s, uri) : \A j \in About(s, uri) : j <= i]

\* C11 (as claimed): after any sequence of content-change events the host
\* has published for each event exactly one diagnostics notification, for
\* that event's URI and carrying validateText of that event's text, in the
\* order of the events; so the most recently published diagnostics of a URI
\* are validateText of the latest text of that document.
C11_OneNotificationPerEvent_Claimed ==
  /\ Len(notifications) = Len(events)
  /\ \A i \in DOMAIN events :
       /\ notifications[i].uri = events[i].uri
       /\ notifications[i].diagnostics = validateText(events[i].text, events[i].yaml)
  /\ \A uri \in Uris :
       About(events, uri) # {} =>
         Latest(notifications, uri).diagnostics
           = validateText(Latest(events, uri).text, Latest(events, uri).yaml)

\* C11 (amended): after any sequence of content-change events the host has
\* published, for each event whose validation returned, exactly one
\* diagnostics notification, for that event's URI and carrying validateText
\* of that event's text, in the order of the events, and nothing for an
\* event whose parse threw something other than a YAMLParseError; so the
\* most recently published diagnostics of a URI are validateText of the
\* latest text of that document whose validation returned, never findings of
\* an earlier text or of another document.
C11_OneNotificationPerReturnedEvent ==
  LET returned == SelectSeq(events, LAMBDA e : ~Propagates(e))
  IN /\ Len(notifications) = Len(returned)
     /\ \A i \in DOMAIN returned :
          /\ notifications[i].uri = returned[i].uri
          /\ notifications[i].diagnostics
               = validateText(returned[i].text, returned[i].yaml)
     /\ \A uri \in Uris :
          /\ About(notifications, uri) = {} <=> About(returned, uri) = {}
          /\ About(returned, uri) # {} =>
               Latest(notifications, uri).diagnostics
                 = validateText(Latest(returned, uri).text, Latest(returned, uri).yaml)

\* three events on two documents, one of them with a parse that threw
\* something else, the others published with findings
C11_Witness ==
  /\ Len(events) = MaxEvents
  /\ \E i \in DOMAIN events : Propagates(events[i])
  /\ \A uri \in Uris : About(notifications, uri) # {}
  /\ \E i \in DOMAIN notifications : Len(notifications[i].diagnostics) > 1
  /\ \E i \in DOMAIN notifications : notifications[i].diagnostics = <<>>

\* C12 (as claimed): for every hover request, the host returns a formatted
\* description exactly when the document is open and the line under the
\* cursor starts (after optional whitespace) with a key, followed by optional
\* whitespace and a colon, that is one of the six entries of the
\* field-descriptor table; the description is that entry's.  For every other
\* key, a line without a key, an empty or out-of-range line and an unknown
\* document it returns nothing.
C12_HoverExactlyForSchemaKeys_Claimed ==
  op = "hover" =>
    LET doc == documents[hover.uri]
        keys == IF doc.open
                  THEN {k \in SchemaKeys : Declares(doc.text, hover.line, k)}
                  ELSE {}
    IN /\ hover.result.isNull <=> keys = {}
       /\ \A k \in keys :
            hover.result.contents.value
              = <<k, FIELD_DOCS[k].type,
                  IF FIELD_DOCS[k].required THEN "required" ELSE "optional",
                  FIELD_DOCS[k].description>>

(***************************************************************************)
(* Properties of validateConfig as a whole.                                *)
(***************************************************************************)
TopLevelFields == {"name", "version", "enabled", "settings"}

\* the messages of the findings that are about a top-level field
MessagesAbout(f) ==
  CASE f = "name" -> {MissingMessage("name"), NameMessage}
    [] f = "version" -> {MissingMessage("version"), VersionMessage}
    [] f = "enabled" -> {EnabledMessage}
    [] f = "settings" -> {SettingsMessage, TimeoutMessage, RetriesMessage,
                          RetriesRangeMessage}

Only(ds, ms) == SelectSeq(ds, LAMBDA d : d.message \in ms)
Without(ds, ms) == SelectSeq(ds, LAMBDA d : d.message \notin ms)

\* the mapping reduced to its field f, and the mapping with f removed
Alone(c, f) == JsObject([k \in DOMAIN c.props \cap {f} |-> c.props[k]])
Removed(c, f) == JsObject([k \in DOMAIN c.props \ {f} |-> c.props[k]])

\* the findings that the field f produces on its own
OwnFindings(f) ==
  Only(validateConfig(Alone(config, f), text), MessagesAbout(f))

\* C13: validateConfig collects every violation: its result is the
\* concatenation, in the order missing-name, missing-version, name-type,
\* version-type, enabled-type, settings (shape, or timeout then retries), of
\* the findings each field produces on its own; changing the value of one
\* top-level field changes only that field's findings and leaves the others
\* and their order as they were (whatever the field's value, the findings
\* about the other fields are those of the mapping without it).  A mapping with a string version, no name, a
\* non-boolean enabled and a non-numeric settings.timeout yields exactly
\* three findings: error, warning, warning.
C13_AllViolationsCollected ==
  op = "validateConfig" =>
    /\ LET ownName == OwnFindings("name")
           ownVersion == OwnFindings("version")
       IN diagnostics =
            Only(ownName, {MissingMessage("name")})
            \o Only(ownVersion, {MissingMessage("version")})
            \o Only(ownName, {NameMessage})
            \o Only(ownVersion, {VersionMessage})
            \o OwnFindings("enabled")
            \o OwnFindings("settings")
    /\ \A i \in FindingsWith(TimeoutMessage) :
         \A j \in FindingsWith(RetriesMessage) \cup FindingsWith(RetriesRangeMessage) :
           i < j
    /\ \A f \in TopLevelFields :
         Without(validateConfig(Removed(config, f), text), MessagesAbout(f))
           = Without(diagnostics, MessagesAbout(f))
    /\ (/\ ~Has("name")
        /\ Has("version") /\ ValueOf("version").kind = "string"
        /\ Has("enabled") /\ ValueOf("enabled").kind # "boolean"
        /\ SettingsHas("timeout") /\ ~IsNumberValue(SettingsValueOf("timeout"))
        /\ ~SettingsHas("retries"))
         => /\ Len(diagnostics) = 3
            /\ diagnostics[1].severity = Error
            /\ diagnostics[2].severity = Warning
            /\ diagnostics[3].severity = Warning

\* the mapping of the example, with its three findings on three different
\* lines of the text
C13_Witness ==
  /\ op = "validateConfig"
  /\ ~Has("name")
  /\ Has("version") /\ ValueOf("version").kind = "string"
  /\ Has("enabled") /\ ValueOf("enabled").kind # "boolean"
  /\ SettingsHas("timeout") /\ ~IsNumberValue(SettingsValueOf("timeout"))
  /\ ~SettingsHas("retries")
  /\ Len(diagnostics) = 3
  /\ LineOfFinding(2) # LineOfFinding(3)
  /\ LineOfFinding(3) > 0

\* C14: validateConfig emits at most one finding per schema field (name,
\* version, enabled, settings, timeout, retries): a required field never has
\* both a missing finding and a wrong-type finding, and settings never has
\* its shape error together with a timeout or retries warning.  Hence
\* validateConfig and validateText never return more than 5 findings, and
\* every finding's line is >= 0 and, for a non-empty text, less than the
\* number of lines of that text.
C14_AtMostOneFindingPerField ==
  op \in {"validateConfig", "validateText"} =>
    /\ \A f \in {"name", "version"} :
         Cardinality(UNION {FindingsWith(m) : m \in MessagesAbout(f)}) <= 1
    /\ Cardinality(FindingsWith(EnabledMessage)) <= 1
    /\ Cardinality(FindingsWith(SettingsMessage)) <= 1
    /\ Cardinality(FindingsWith(TimeoutMessage)) <= 1
    /\ Cardinality(FindingsWith(RetriesMessage)
                   \cup FindingsWith(RetriesRangeMessage)) <= 1
    /\ FindingsWith(SettingsMessage) # {} =>
         /\ FindingsWith(TimeoutMessage) = {}
         /\ FindingsWith(RetriesMessage) = {}
         /\ FindingsWith(RetriesRangeMessage) = {}
    /\ Len(diagnostics) <= 5
    /\ \A i \in DOMAIN diagnostics :
         /\ LineOfFinding(i) >= 0
         /\ text # <<>> => LineOfFinding(i) < NumLines(text)

\* five findings, one for each of name, version, enabled, timeout and
\* retries, one of them on the last line of the text
C14_Witness ==
  /\ op \in {"validateConfig", "validateText"}
  /\ Len(diagnostics) = 5
  /\ NumLines(text) = MaxLines
  /\ \E i \in DOMAIN diagnostics : LineOfFinding(i) = NumLines(text) - 1

====
